---- MODULE Spec2Model ----
(***************************************************************************)
(* Model of the presigned-upload worker (fetch, handleUploadUrl,           *)
(* handleConfirmUpload, handleCORS, corsResponse).  Strings are sequences  *)
(* of one-character strings so that the two regular expressions of the     *)
(* worker and the template literals are computed character by character.   *)
(***************************************************************************)
EXTENDS Integers, Sequences, FiniteSets

(* ------------------------------ bounds --------------------------------- *)
\* requests the process receives, in flight together or one after another
MaxRequests == 2
\* Date.now() ranges over ClockStart..MaxClock
MaxClock == 10
\* length of the filenames submitted to the Issuer
MaxNameLen == 3
\* length of the part of a submitted key after its first segment
MaxTail == 5
\* files the user adds to the upload widget
MaxFiles == 2
\* uploadFile calls of the widget (first attempts and retries)
MaxUploads == 2
\* requests sent to the Hono app
MaxHono == 2

\* first value of Date.now() in the model (9 -> 10 changes the digit count)
ClockStart == MaxClock - 1

(* --------------------------- JavaScript values ------------------------- *)
Undef == [t |-> "undefined", s |-> <<>>, n |-> 0]
JsNull == [t |-> "null", s |-> <<>>, n |-> 0]
Str(s) == [t |-> "string", s |-> s, n |-> 0]
Num(n) == [t |-> "number", s |-> <<>>, n |-> n]

\* a presence test that takes "" and 0 for present (filename == null)
TruthyNullish(v) == v.t \notin {"undefined", "null"}

\* JavaScript truthiness: undefined, null, "" and 0 are falsy
Truthy(v) ==
  CASE v.t = "undefined" -> FALSE
    [] v.t = "null" -> FALSE
    [] v.t = "string" -> v.s # <<>>
    [] OTHER -> v.n # 0

DigitChars == <<"0", "1", "2", "3", "4", "5", "6", "7", "8", "9">>

\* decimal digits of a natural number, as Number.prototype.toString gives
RECURSIVE NatToString(_)
NatToString(n) ==
  IF n < 10 THEN <<DigitChars[n + 1]>>
  ELSE NatToString(n \div 10) \o <<DigitChars[(n % 10) + 1]>>

\* the characters a template literal `${v}` or RegExp.test(v) sees
JsToString(v) ==
  CASE v.t = "undefined" -> <<"u", "n", "d", "e", "f", "i", "n", "e", "d">>
    [] v.t = "null" -> <<"n", "u", "l", "l">>
    [] v.t = "string" -> v.s
    [] OTHER -> NatToString(v.n)

(* --------------------------- character classes ------------------------- *)
Digits == {"0", "1", "2", "3", "4", "5", "6", "7", "8", "9"}
Letters ==
  {"a", "b", "c", "d", "e", "f", "g", "h", "i", "j", "k", "l", "m",
   "n", "o", "p", "q", "r", "s", "t", "u", "v", "w", "x", "y", "z",
   "A", "B", "C", "D", "E", "F", "G", "H", "I", "J", "K", "L", "M",
   "N", "O", "P", "Q", "R", "S", "T", "U", "V", "W", "X", "Y", "Z"}
\* \w
IsWord(c) == c \in Letters \cup Digits \cup {"_"}
\* \s
IsSpace(c) == c \in {" ", "\t", "\n", "\r"}
\* what `.` does not match (no s flag)
IsLineTerminator(c) == c \in {"\n", "\r"}

(* ------------------------------ strings -------------------------------- *)
\* all sequences over chars of length at most n
RECURSIVE SeqsUpTo(_, _)
SeqsUpTo(chars, n) ==
  IF n = 0 THEN {<<>>}
  ELSE LET shorter == SeqsUpTo(chars, n - 1)
       IN shorter \cup {Append(s, c) : s \in {x \in shorter : Len(x) = n - 1}, c \in chars}

\* n copies of the character c
RECURSIVE Rep(_, _)
Rep(c, n) == IF n = 0 THEN <<>> ELSE <<c>> \o Rep(c, n - 1)

UploadsPrefix == <<"u", "p", "l", "o", "a", "d", "s", "/">>
HttpsPrefix == <<"h", "t", "t", "p", "s", ":", "/", "/">>
S3Domain == <<".", "s", "3", ".", "a", "m", "a", "z", "o", "n", "a", "w", "s", ".", "c", "o", "m", "/">>

(* ------------------------ handleUploadUrl helpers ---------------------- *)
\* filename.replace(/[^\w\s.-]/g, '_')
SanitizeFilename(s) ==
  [i \in 1..Len(s) |->
     IF IsWord(s[i]) \/ IsSpace(s[i]) \/ s[i] \in {".", "-"} THEN s[i] ELSE "_"]

\* a key built without the random identifier
MakeKeyNoUuid(now, uuid, sanitized) ==
  UploadsPrefix \o NatToString(now) \o <<"-">> \o sanitized

\* `uploads/${Date.now()}-${crypto.randomUUID()}-${sanitizedFilename}`
MakeKey(now, uuid, sanitized) ==
  UploadsPrefix \o NatToString(now) \o <<"-">> \o uuid \o <<"-">> \o sanitized

(* ---------------------- handleConfirmUpload helpers -------------------- *)
\* /^uploads\/\d-[\w-]+-.*$/ : a single digit
KeyRegexTestOneDigit(s) ==
  /\ Len(s) >= Len(UploadsPrefix) + 4
  /\ SubSeq(s, 1, Len(UploadsPrefix)) = UploadsPrefix
  /\ s[Len(UploadsPrefix) + 1] \in Digits
  /\ s[Len(UploadsPrefix) + 2] = "-"
  /\ \E j \in (Len(UploadsPrefix) + 3)..(Len(s) - 1) :
       /\ \A k \in (Len(UploadsPrefix) + 3)..j : IsWord(s[k]) \/ s[k] = "-"
       /\ s[j + 1] = "-"
       /\ \A k \in (j + 2)..Len(s) : ~IsLineTerminator(s[k])

\* /^uploads\/\d+-.*$/ : no identifier segment
KeyRegexTestNoIdentifier(s) ==
  /\ Len(s) >= Len(UploadsPrefix)
  /\ SubSeq(s, 1, Len(UploadsPrefix)) = UploadsPrefix
  /\ \E i \in (Len(UploadsPrefix) + 1)..(Len(s) - 1) :
       /\ \A k \in (Len(UploadsPrefix) + 1)..i : s[k] \in Digits
       /\ s[i + 1] = "-"
       /\ \A k \in (i + 2)..Len(s) : ~IsLineTerminator(s[k])

\* /^uploads\/\d+-[\w-]+-.*$/.test(s)
KeyRegexTest(s) ==
  /\ Len(s) >= Len(UploadsPrefix)
  /\ SubSeq(s, 1, Len(UploadsPrefix)) = UploadsPrefix
  /\ \E i \in (Len(UploadsPrefix) + 1)..Len(s) :
       /\ \A k \in (Len(UploadsPrefix) + 1)..i : s[k] \in Digits
       /\ \E j \in (i + 2)..(Len(s) - 1) :
            /\ s[i + 1] = "-"
            /\ \A k \in (i + 2)..j : IsWord(s[k]) \/ s[k] = "-"
            /\ s[j + 1] = "-"
            /\ \A k \in (j + 2)..Len(s) : ~IsLineTerminator(s[k])

\* `https://${env.AWS_S3_BUCKET}.s3.amazonaws.com/${key}`
ImageUrl(bucket, key) ==
  HttpsPrefix \o JsToString(bucket) \o S3Domain \o JsToString(key)

(* ------------------------------ responses ------------------------------ *)
\* JSON.stringify output: the keys present and their values
EmptyBody ==
  [fields |-> {}, error |-> "", details |-> "", message |-> "", success |-> FALSE,
   url |-> Undef, key |-> Undef, bucket |-> Undef, imageUrl |-> Undef]

\* no Response has been returned yet
NoResponse ==
  [status |-> 0, contentType |-> "", allowOrigin |-> <<>>, cacheControl |-> "",
   text |-> "", body |-> EmptyBody]

\* every response opened to any origin
AllowedOriginStar(e) == <<"*">>

\* env.ALLOWED_ORIGIN || "*"
AllowedOrigin(e) ==
  IF Truthy(e.ALLOWED_ORIGIN) THEN JsToString(e.ALLOWED_ORIGIN) ELSE <<"*">>

\* JSON.stringify drops a key whose value is undefined
Stringified(names, body) ==
  [body EXCEPT !.fields = {f \in names : f \notin {"url", "key", "bucket", "imageUrl"} \/ body[f].t # "undefined"}]

corsResponse(body, e, status) ==
  [status |-> status, contentType |-> "application/json",
   allowOrigin |-> AllowedOrigin(e),
   cacheControl |-> IF status = 200 THEN "private, no-cache" ELSE "no-store",
   text |-> "", body |-> body]

handleCORS(e) ==
  [status |-> 200, contentType |-> "", allowOrigin |-> AllowedOrigin(e),
   cacheControl |-> "public, max-age=86400", text |-> "", body |-> EmptyBody]

NotFound ==
  [status |-> 404, contentType |-> "text/plain", allowOrigin |-> <<>>,
   cacheControl |-> "", text |-> "Not found", body |-> EmptyBody]

\* the catch block of handleUploadUrl
UploadFailure(e, message) ==
  corsResponse(Stringified({"error", "details"},
                 [EmptyBody EXCEPT !.error = "Failed to generate upload URL",
                                   !.details = message]), e, 500)

MissingParameters(e) ==
  corsResponse(Stringified({"error"},
                 [EmptyBody EXCEPT !.error = "Missing required parameters: filename and filetype"]),
               e, 400)

UploadSuccess(e, presignedUrl, key) ==
  corsResponse(Stringified({"url", "key", "bucket"},
                 [EmptyBody EXCEPT !.url = Str(presignedUrl), !.key = Str(key),
                                   !.bucket = e.AWS_S3_BUCKET]), e, 200)

\* handleConfirmUpload, from the value request.json() resolves to
handleConfirmUpload(body, e) ==
  IF body.kind = "invalid" THEN
    corsResponse(Stringified({"error", "details"},
                   [EmptyBody EXCEPT !.error = "Failed to confirm upload",
                                     !.details = "SyntaxError"]), e, 500)
  ELSE IF body.kind = "null" THEN
    corsResponse(Stringified({"error", "details"},
                   [EmptyBody EXCEPT !.error = "Failed to confirm upload",
                                     !.details = "TypeError"]), e, 500)
  ELSE IF ~Truthy(body.key) THEN
    corsResponse(Stringified({"error"},
                   [EmptyBody EXCEPT !.error = "Missing required parameter: key"]), e, 400)
  ELSE IF ~KeyRegexTest(JsToString(body.key)) THEN
    corsResponse(Stringified({"error"},
                   [EmptyBody EXCEPT !.error = "Invalid key format"]), e, 400)
  ELSE
    corsResponse(Stringified({"success", "message", "imageUrl"},
                   [EmptyBody EXCEPT !.success = TRUE, !.message = "Upload confirmed!",
                                     !.imageUrl = Str(ImageUrl(e.AWS_S3_BUCKET, body.key))]),
                 e, 200)

(* ------------------------------- inputs -------------------------------- *)
\* the process environment: each option is set or absent
Envs ==
  [AWS_ACCESS_KEY_ID : {Undef, Str(<<"A", "K">>)},
   AWS_SECRET_ACCESS_KEY : {Undef, Str(<<"S", "K">>)},
   AWS_REGION : {Undef, Str(<<"e", "u">>)},
   AWS_S3_BUCKET : {Undef, Str(<<"b", "k", "t">>)},
   ALLOWED_ORIGIN : {Undef, Str(<<"h", "t", "t", "p", ":", "/", "/", "a">>)}]

\* what request.json() resolves to: a syntax error, null, or an object
InvalidBody == [kind |-> "invalid", filename |-> Undef, filetype |-> Undef, key |-> Undef]
NullBody == [kind |-> "null", filename |-> Undef, filetype |-> Undef, key |-> Undef]
Obj(filename, filetype, key) ==
  [kind |-> "object", filename |-> filename, filetype |-> filetype, key |-> key]

NameChars == {"a", " ", "\n", "$"}
ImagePng == <<"i", "m", "a", "g", "e", "/", "p", "n", "g">>
Filenames == {Undef, Num(5)} \cup {Str(n) : n \in SeqsUpTo(NameChars, MaxNameLen)}
Filetypes == {Undef, Str(<<>>), Str(ImagePng)}
UploadBodies == {Obj(fn, ft, Undef) : fn \in Filenames, ft \in Filetypes}

\* crypto.randomUUID(): 8-4-4-4-12 hexadecimal digits, version 4
Uuid(c) ==
  Rep(c, 8) \o <<"-">> \o Rep(c, 4) \o <<"-", "4">> \o Rep(c, 3) \o <<"-", "8">>
    \o Rep(c, 3) \o <<"-">> \o Rep(c, 12)
HexSample == <<"0", "7", "a", "e", "f", "1", "b", "9">>
\* what crypto.randomUUID() can return next: any value it has not returned before
\* (one value is available for each request the process can receive)
FreshUuids(used) == {Uuid(HexSample[i]) : i \in 1..MaxRequests} \ used

\* what getSignedUrl resolves to for a command: the object's URL and the signed query
PresignedUrl(bucket, key, expiresIn) ==
  HttpsPrefix \o JsToString(bucket) \o S3Domain \o key
    \o <<"?", "X", "-", "A", "m", "z", "-", "E", "x", "p", "i", "r", "e", "s", "=">>
    \o NatToString(expiresIn)

Request(method, path, body) == [method |-> method, path |-> path, body |-> body]
\* the requests, numbered in the order fetch is called with them
Slots == 1..MaxRequests

\* the requests sent to the Hono app, numbered in the order they arrive
HonoRequests == 1..MaxHono

\* a request the Hono app has not received yet
HonoIdle ==
  [pc |-> "idle", method |-> "", path |-> "", authorization |-> Undef, jsonBody |-> FALSE,
   checked |-> FALSE, handler |-> "", status |-> 0, contentType |-> "", text |-> ""]

(* -------------------------------- state -------------------------------- *)
VARIABLES
  env,         \* the environment bindings passed to every fetch
  s3Client,    \* the module-level client handle (null until constructed)
  constructed, \* how many times `new S3Client` has run
  slots,       \* the requests: their position in the handler and their response
  signLog,     \* the getSignedUrl calls made so far
  clock,       \* Date.now()
  usedUuids,   \* the values crypto.randomUUID() has returned
  files,       \* the upload widget's `files` state
  uploads,     \* the uploadFile calls of the widget and how far each has got
  removed,     \* the ids removeFile has taken out of the list
  hono         \* the requests of the Hono app

widgetVars == <<files, uploads, removed>>
vars == <<env, s3Client, constructed, slots, signLog, clock, usedUuids, files, uploads, removed, hono>>

NullClient == [made |-> FALSE, serial |-> 0, region |-> Undef, accessKeyId |-> Undef, secretAccessKey |-> Undef]

\* new S3Client({region, credentials})
NewS3Client(e, serial) ==
  [made |-> TRUE, serial |-> serial, region |-> e.AWS_REGION,
   accessKeyId |-> e.AWS_ACCESS_KEY_ID, secretAccessKey |-> e.AWS_SECRET_ACCESS_KEY]

IdleSlot ==
  [pc |-> "idle", id |-> 0, method |-> "", path |-> "", handler |-> "",
   body |-> NullBody, key |-> <<>>, resp |-> NoResponse]

Init ==
  /\ env \in Envs
  /\ s3Client = NullClient
  /\ constructed = 0
  /\ slots = [r \in Slots |-> IdleSlot]
  /\ signLog = <<>>
  /\ clock = ClockStart
  /\ usedUuids = {}
  /\ files = <<>>
  /\ uploads = <<>>
  /\ removed = {}
  /\ hono = [h \in HonoRequests |-> HonoIdle]

(* ------------------------------- actions ------------------------------- *)
\* the handle constructed without looking at the region
LazyClientNoRegion(client, e, count) ==
  IF ~client.made /\ Truthy(e.AWS_ACCESS_KEY_ID) /\ Truthy(e.AWS_SECRET_ACCESS_KEY)
  THEN NewS3Client(e, count + 1)
  ELSE client

\* the handle constructed on every request, without the !s3Client test
LazyClientAlways(client, e, count) ==
  IF Truthy(e.AWS_ACCESS_KEY_ID) /\ Truthy(e.AWS_SECRET_ACCESS_KEY) /\ Truthy(e.AWS_REGION)
  THEN NewS3Client(e, count + 1)
  ELSE client

\* the client handle after lines 593-601 of fetch
LazyClient(client, e, count) ==
  IF ~client.made /\ Truthy(e.AWS_ACCESS_KEY_ID) /\ Truthy(e.AWS_SECRET_ACCESS_KEY)
       /\ Truthy(e.AWS_REGION)
  THEN NewS3Client(e, count + 1)
  ELSE client

\* r is the next request to arrive
Idle(r) ==
  /\ slots[r].pc = "idle"
  /\ \A q \in 1..(r - 1) : slots[q].pc # "idle"

\* fetch(request, env, ctx), up to the first await of the handler it routes to
Fetch(r, req) ==
  /\ Idle(r)
  /\ LET arrived == [IdleSlot EXCEPT !.id = r, !.method = req.method,
                                     !.path = req.path, !.body = req.body]
         client == IF req.method = "OPTIONS" THEN s3Client
                   ELSE LazyClient(s3Client, env, constructed)
     IN /\ s3Client' = client
        /\ constructed' = IF client = s3Client THEN constructed ELSE constructed + 1
        /\ slots' = [slots EXCEPT ![r] =
             IF req.method = "OPTIONS" THEN
               [arrived EXCEPT !.pc = "done", !.handler = "cors", !.resp = handleCORS(env)]
             ELSE IF req.path = "/get-upload-url" /\ req.method = "POST" THEN
               IF ~client.made THEN
                 [arrived EXCEPT !.pc = "done", !.handler = "upload",
                    !.resp = UploadFailure(env, "S3 client could not be initialized. Check AWS credentials.")]
               ELSE [arrived EXCEPT !.pc = "json", !.handler = "upload"]
             ELSE IF req.path = "/confirm-upload" /\ req.method = "POST" THEN
               [arrived EXCEPT !.pc = "json", !.handler = "confirm"]
             ELSE [arrived EXCEPT !.pc = "done", !.handler = "none", !.resp = NotFound]]
  /\ UNCHANGED <<env, signLog, clock, usedUuids>>
  /\ UNCHANGED <<widgetVars, hono>>

\* the command signed without its content type
SignCallNoContentType(id, client, e, key, filetype) ==
  [req |-> id, client |-> client, command |-> "PutObject", Bucket |-> e.AWS_S3_BUCKET,
   Key |-> key, ContentType |-> Undef, expiresIn |-> 3600,
   outcome |-> "pending", url |-> <<>>]

\* new PutObjectCommand(...) handed to getSignedUrl(s3Client, command, {expiresIn: 3600})
SignCall(id, client, e, key, filetype) ==
  [req |-> id, client |-> client, command |-> "PutObject", Bucket |-> e.AWS_S3_BUCKET,
   Key |-> key, ContentType |-> filetype, expiresIn |-> 3600,
   outcome |-> "pending", url |-> <<>>]

\* handleUploadUrl from the moment request.json() settles up to the await of getSignedUrl
UploadJson(r) ==
  /\ slots[r].pc = "json"
  /\ slots[r].handler = "upload"
  /\ LET body == slots[r].body
     IN IF body.kind = "invalid" THEN
          /\ slots' = [slots EXCEPT ![r].pc = "done", ![r].resp = UploadFailure(env, "SyntaxError")]
          /\ UNCHANGED <<signLog, usedUuids>>
        ELSE IF body.kind = "null" THEN
          /\ slots' = [slots EXCEPT ![r].pc = "done", ![r].resp = UploadFailure(env, "TypeError")]
          /\ UNCHANGED <<signLog, usedUuids>>
        ELSE IF ~Truthy(body.filename) \/ ~Truthy(body.filetype) THEN
          /\ slots' = [slots EXCEPT ![r].pc = "done", ![r].resp = MissingParameters(env)]
          /\ UNCHANGED <<signLog, usedUuids>>
        ELSE IF body.filename.t # "string" THEN
          \* filename.replace is not a function
          /\ slots' = [slots EXCEPT ![r].pc = "done", ![r].resp = UploadFailure(env, "TypeError")]
          /\ UNCHANGED <<signLog, usedUuids>>
        ELSE
          \E uuid \in FreshUuids(usedUuids) :
            LET key == MakeKey(clock, uuid, SanitizeFilename(body.filename.s))
            IN /\ usedUuids' = usedUuids \cup {uuid}
               /\ signLog' = Append(signLog, SignCall(slots[r].id, s3Client, env, key, body.filetype))
               /\ slots' = [slots EXCEPT ![r].pc = "signing", ![r].key = key]
  /\ UNCHANGED <<env, s3Client, constructed, clock>>
  /\ UNCHANGED <<widgetVars, hono>>

\* the index in signLog of the pending call of request id
PendingCall(id) == CHOOSE i \in 1..Len(signLog) : signLog[i].req = id /\ signLog[i].outcome = "pending"

\* getSignedUrl resolves: handleUploadUrl returns the credential
SignResolve(r) ==
  /\ slots[r].pc = "signing"
  /\ LET i == PendingCall(slots[r].id)
         presignedUrl == PresignedUrl(signLog[i].Bucket, signLog[i].Key, signLog[i].expiresIn)
     IN /\ signLog' = [signLog EXCEPT ![i].outcome = "resolved", ![i].url = presignedUrl]
        /\ slots' = [slots EXCEPT ![r].pc = "done",
                                  ![r].resp = UploadSuccess(env, presignedUrl, slots[r].key)]
  /\ UNCHANGED <<env, s3Client, constructed, clock, usedUuids>>
  /\ UNCHANGED <<widgetVars, hono>>

\* getSignedUrl rejects: the catch block of handleUploadUrl answers
SignReject(r) ==
  /\ slots[r].pc = "signing"
  /\ signLog' = [signLog EXCEPT ![PendingCall(slots[r].id)].outcome = "rejected"]
  /\ slots' = [slots EXCEPT ![r].pc = "done", ![r].resp = UploadFailure(env, "SigningError")]
  /\ UNCHANGED <<env, s3Client, constructed, clock, usedUuids>>
  /\ UNCHANGED <<widgetVars, hono>>

\* handleConfirmUpload once request.json() settles
ConfirmJson(r) ==
  /\ slots[r].pc = "json"
  /\ slots[r].handler = "confirm"
  /\ slots' = [slots EXCEPT ![r].pc = "done",
                            ![r].resp = handleConfirmUpload(slots[r].body, env)]
  /\ UNCHANGED <<env, s3Client, constructed, signLog, clock, usedUuids>>
  /\ UNCHANGED <<widgetVars, hono>>

\* a millisecond passes
Tick ==
  /\ clock < MaxClock
  /\ clock' = clock + 1
  /\ UNCHANGED <<env, s3Client, constructed, slots, signLog, usedUuids>>
  /\ UNCHANGED <<widgetVars, hono>>

\* the keys returned so far in successful Issuer responses
IssuedKeys ==
  {slots[r].resp.body.key.s :
     r \in {q \in Slots : slots[q].pc = "done" /\ slots[q].handler = "upload"
                            /\ slots[q].resp.status = 200}}

\* a key the Issuer returned earlier, sent back for confirmation
ConfirmIssued == {Request("POST", "/confirm-upload", Obj(Undef, Undef, Str(k))) : k \in IssuedKeys}

\* the requests of the concurrent specification: one for each route and outcome
SampleRequests ==
  {Request("OPTIONS", "/get-upload-url", NullBody),
   Request("GET", "/", NullBody),
   Request("POST", "/get-upload-url", InvalidBody),
   Request("POST", "/get-upload-url", Obj(Undef, Str(ImagePng), Undef)),
   Request("POST", "/get-upload-url", Obj(Str(<<"a", "$">>), Str(ImagePng), Undef)),
   Request("POST", "/get-upload-url", Obj(Str(<<"a", "\n", "b">>), Str(ImagePng), Undef)),
   Request("POST", "/confirm-upload", Obj(Undef, Undef, Str(UploadsPrefix \o <<"7", "-", "a", "-", "x">>)))}

Next ==
  \/ \E r \in Slots : Idle(r) /\ \E req \in SampleRequests \cup ConfirmIssued : Fetch(r, req)
  \/ \E r \in Slots : UploadJson(r)
  \/ \E r \in Slots : SignResolve(r)
  \/ \E r \in Slots : SignReject(r)
  \/ \E r \in Slots : ConfirmJson(r)
  \/ Tick

\* the allowed origin only sets a response header: the interleavings are explored with
\* the default one, the single-request specifications vary it
InitConcurrent == Init /\ ~Truthy(env.ALLOWED_ORIGIN)

Spec == InitConcurrent /\ [][Next]_vars

(* ------------------ the Issuer over every short filename -------------- *)
UploadRequests ==
  {Request("POST", "/get-upload-url", b) : b \in UploadBodies \cup {InvalidBody, NullBody}}

NextIssuer ==
  \/ Idle(1) /\ \E req \in UploadRequests : Fetch(1, req)
  \/ UploadJson(1)
  \/ SignResolve(1)
  \/ SignReject(1)
  \/ Tick

SpecIssuer == Init /\ [][NextIssuer]_vars

(* ------------------ the Validator over every short key ----------------- *)
KeyChars == {"7", "a", "-", ".", " ", "\n", "/"}
KeyValues ==
  {Undef, JsNull, Num(7), Str(<<"7", "-", "a", "-">>)}
    \cup {Str(UploadsPrefix \o t) : t \in SeqsUpTo(KeyChars, MaxTail)}
ConfirmRequests ==
  {Request("POST", "/confirm-upload", Obj(Undef, Undef, k)) : k \in KeyValues}

\* the environments that differ in what handleConfirmUpload reads
InitConfirm ==
  /\ Init
  /\ Truthy(env.AWS_ACCESS_KEY_ID) /\ Truthy(env.AWS_SECRET_ACCESS_KEY) /\ Truthy(env.AWS_REGION)
  /\ ~Truthy(env.ALLOWED_ORIGIN)

NextConfirm ==
  \/ Idle(1) /\ \E req \in ConfirmRequests : Fetch(1, req)
  \/ ConfirmJson(1)

SpecConfirm == InitConfirm /\ [][NextConfirm]_vars

(* ------------- the response headers under every environment ------------ *)
\* a preflight, an unrouted request and requests to the two endpoints that end in each
\* status
HeaderRequests ==
  {Request("OPTIONS", "/get-upload-url", NullBody),
   Request("OPTIONS", "/confirm-upload", NullBody),
   Request("GET", "/", NullBody),
   Request("POST", "/get-upload-url", InvalidBody),
   Request("POST", "/get-upload-url", Obj(Undef, Str(ImagePng), Undef)),
   Request("POST", "/get-upload-url", Obj(Str(<<"a">>), Str(ImagePng), Undef)),
   Request("POST", "/confirm-upload", NullBody),
   Request("POST", "/confirm-upload", Obj(Undef, Undef, Str(<<"x">>))),
   Request("POST", "/confirm-upload", Obj(Undef, Undef, Str(UploadsPrefix \o <<"7", "-", "a", "-", "x">>)))}

\* the requests are handled one after the other
Sequential(r) == Idle(r) /\ \A q \in 1..(r - 1) : slots[q].pc = "done"

NextHeaders ==
  \/ \E r \in Slots : Sequential(r) /\ \E req \in HeaderRequests : Fetch(r, req)
  \/ \E r \in Slots : UploadJson(r)
  \/ \E r \in Slots : SignResolve(r)
  \/ \E r \in Slots : SignReject(r)
  \/ \E r \in Slots : ConfirmJson(r)

SpecHeaders == Init /\ [][NextHeaders]_vars

(* --------------------------- the upload widget -------------------------- *)
\* MAX_FILE_SIZE, 15MB
MAX_FILE_SIZE == 15 * 1024 * 1024
ImageJpeg == <<"i", "m", "a", "g", "e", "/", "j", "p", "e", "g">>
ImageGif == <<"i", "m", "a", "g", "e", "/", "g", "i", "f">>
VideoMp4 == <<"v", "i", "d", "e", "o", "/", "m", "p", "4">>
VideoQuicktime == <<"v", "i", "d", "e", "o", "/", "q", "u", "i", "c", "k", "t", "i", "m", "e">>
TextPlain == <<"t", "e", "x", "t", "/", "p", "l", "a", "i", "n">>
ALLOWED_TYPES == {ImageJpeg, ImagePng, ImageGif, VideoMp4, VideoQuicktime}

\* the files a user can pick: a small image, a text file, an image over the limit
SelectedFile(type, size) == [type |-> type, size |-> size]
SelectableFiles ==
  {SelectedFile(ImagePng, 2), SelectedFile(TextPlain, 2),
   SelectedFile(ImagePng, MAX_FILE_SIZE + 1)}
\* one file, or two files dropped together
Selections ==
  {<<a>> : a \in SelectableFiles} \cup {<<a, b>> : a \in SelectableFiles, b \in SelectableFiles}

\* an entry of `files`
FileInfo(id, size, status, progress, url) ==
  [id |-> id, size |-> size, status |-> status, progress |-> progress, url |-> url]

FileIds(fs) == {fs[i].id : i \in DOMAIN fs}
\* crypto.randomUUID() in validateAndAddFiles: the k-th id never handed out before
FreshFileId(k) == Cardinality(FileIds(files)) + Cardinality(removed) + k

RECURSIVE Validated(_, _)
\* the forEach of validateAndAddFiles: the accepted files, each with a new id
Validated(selected, k) ==
  IF selected = <<>> THEN <<>>
  ELSE LET f == Head(selected)
       IN IF f.type \notin ALLOWED_TYPES \/ f.size > MAX_FILE_SIZE
          THEN Validated(Tail(selected), k)
          ELSE <<FileInfo(FreshFileId(k), f.size, "pending", 0, Undef)>>
                 \o Validated(Tail(selected), k + 1)

\* prev.map(f => f.id === id ? updated : f), adding an entry when there is none
MapFileUpsert(fs, id, updated) ==
  IF id \in FileIds(fs)
  THEN [i \in DOMAIN fs |-> IF fs[i].id = id THEN updated[i] ELSE fs[i]]
  ELSE Append(fs, FileInfo(id, 0, "uploading", 0, Undef))

\* prev.map(f => f.id === id ? updated : f), with the updated entry of each position
MapFile(fs, id, updated) ==
  [i \in DOMAIN fs |-> IF fs[i].id = id THEN updated[i] ELSE fs[i]]

\* the updaters uploadFile hands to setFiles
AsUploading(f) == [f EXCEPT !.status = "uploading", !.progress = 0]
AsSuccess(f, presignedUrl) ==
  [f EXCEPT !.status = "success", !.progress = 100,
            !.url = Str(ImageUrl(presignedUrl.bucket, presignedUrl.key))]
AsError(f) == [f EXCEPT !.status = "error", !.progress = 0]

\* Math.round((loaded * 100) / (total || size))
PercentCompleted(loaded, total, size) ==
  LET d == IF total # 0 THEN total ELSE size
  IN (2 * loaded * 100 + d) \div (2 * d)

\* a call of uploadFile(fileInfo): the closure's file and how far the call has got
UploadRun(fileInfo) ==
  [file |-> fileInfo.id, size |-> fileInfo.size, pc |-> "getUrl",
   presignedUrl |-> [bucket |-> Undef, key |-> Undef]]

\* what POST /get-upload-url can answer to the n-th call
PresignedResponses(n) ==
  {[bucket |-> b, key |-> Str(MakeKey(ClockStart, Uuid(HexSample[n]), <<"a">>))] :
     b \in {Undef, Str(<<"b", "k", "t">>)}}

RECURSIVE StartUploads(_, _)
\* uploadFile up to its first await, for each file of a list in turn: the entry is
\* marked uploading and the request for a presigned URL is sent
StartUploads(fs, new) ==
  IF new = <<>> THEN fs
  ELSE StartUploads(MapFile(fs, Head(new).id, [i \in DOMAIN fs |-> AsUploading(fs[i])]),
                    Tail(new))

Runs(new) == [i \in DOMAIN new |-> UploadRun(new[i])]

\* validateAndAddFiles(selectedFiles) with the uploadFile calls it makes, up to their
\* first await
validateAndAddFiles(selected) ==
  LET newFiles == Validated(selected, 1)
  IN /\ Cardinality(FileIds(files)) + Cardinality(removed) + Len(newFiles) <= MaxFiles
     /\ Len(uploads) + Len(newFiles) <= MaxUploads
     /\ files' = StartUploads(files \o newFiles, newFiles)
     /\ uploads' = uploads \o Runs(newFiles)
     /\ UNCHANGED <<removed, env, s3Client, constructed, slots, signLog, clock, usedUuids, hono>>

\* the response of POST /get-upload-url is ok and parsed: axios.put starts
GotUploadUrl(u, presignedUrl) ==
  /\ uploads[u].pc = "getUrl"
  /\ uploads' = [uploads EXCEPT ![u].pc = "put", ![u].presignedUrl = presignedUrl]
  /\ UNCHANGED <<files, removed, env, s3Client, constructed, slots, signLog, clock, usedUuids, hono>>

\* onUploadProgress
UploadProgress(u, loaded, total) ==
  /\ uploads[u].pc = "put"
  /\ files' = MapFile(files, uploads[u].file,
                [i \in DOMAIN files |->
                   [files[i] EXCEPT !.progress = PercentCompleted(loaded, total, uploads[u].size)]])
  /\ UNCHANGED <<uploads, removed, env, s3Client, constructed, slots, signLog, clock, usedUuids, hono>>

\* axios.put resolves
UploadSucceeded(u) ==
  /\ uploads[u].pc = "put"
  /\ files' = MapFile(files, uploads[u].file,
                [i \in DOMAIN files |-> AsSuccess(files[i], uploads[u].presignedUrl)])
  /\ uploads' = [uploads EXCEPT ![u].pc = "over"]
  /\ UNCHANGED <<removed, env, s3Client, constructed, slots, signLog, clock, usedUuids, hono>>

\* the catch block of uploadFile: fetch rejected, the response was not ok or could not
\* be parsed, or axios.put rejected
UploadFailed(u) ==
  /\ uploads[u].pc \in {"getUrl", "put"}
  /\ files' = MapFile(files, uploads[u].file, [i \in DOMAIN files |-> AsError(files[i])])
  /\ uploads' = [uploads EXCEPT ![u].pc = "over"]
  /\ UNCHANGED <<removed, env, s3Client, constructed, slots, signLog, clock, usedUuids, hono>>

\* the calls of uploadFile for file id that have not ended
InFlight(id) == {u \in DOMAIN uploads : uploads[u].file = id /\ uploads[u].pc # "over"}

\* what the Retry button of an entry reads of the render it belongs to
Rendered(f) == [id |-> f.id, size |-> f.size, status |-> f.status]

\* removeFile(id), from the X button of an entry; the entry stays mounted, as it was
\* last rendered, while AnimatePresence plays its exit animation
removeFile(i) ==
  /\ i \in DOMAIN files
  /\ files' = SelectSeq(files, LAMBDA f : f.id # files[i].id)
  /\ removed' = removed \cup {[file |-> Rendered(files[i]), inFlight |-> InFlight(files[i].id)]}
  /\ UNCHANGED <<uploads, env, s3Client, constructed, slots, signLog, clock, usedUuids, hono>>

\* the button is rendered whatever the status of the entry
RetryRenderedAlways(f) == TRUE

\* {fileInfo.status === "error" && ... <button onClick={(e) => retryUpload(fileInfo.id, e)}>}
RetryRendered(f) == f.status = "error"

\* the entries that are mounted: those of the list and those that are leaving it
Mounted == {Rendered(files[i]) : i \in DOMAIN files} \cup {x.file : x \in removed}

\* retryUpload(id) with the `files` of the render the button belongs to, and the
\* uploadFile call it makes up to its first await
retryUpload(fileToRetry) ==
  /\ fileToRetry \in Mounted
  /\ RetryRendered(fileToRetry)
  /\ Len(uploads) < MaxUploads
  /\ files' = MapFile(files, fileToRetry.id, [i \in DOMAIN files |-> AsUploading(files[i])])
  /\ uploads' = Append(uploads, UploadRun(fileToRetry))
  /\ UNCHANGED <<removed, env, s3Client, constructed, slots, signLog, clock, usedUuids, hono>>

\* the widget alone: no worker process is part of this specification
InitWidget == Init /\ \A k \in DOMAIN env : env[k] = Undef

NextWidget ==
  \/ Len(uploads) < MaxUploads /\ \E selected \in Selections : validateAndAddFiles(selected)
  \/ \E u \in DOMAIN uploads : \E p \in PresignedResponses(u) : GotUploadUrl(u, p)
  \/ \E u \in DOMAIN uploads :
       \E loaded \in {uploads[u].size \div 2, uploads[u].size}, total \in {0, uploads[u].size} :
         UploadProgress(u, loaded, total)
  \/ \E u \in DOMAIN uploads : UploadSucceeded(u)
  \/ \E u \in DOMAIN uploads : UploadFailed(u)
  \/ \E i \in DOMAIN files : removeFile(i)
  \/ \E f \in Mounted : retryUpload(f)

SpecWidget == InitWidget /\ [][NextWidget]_vars

(* ------------------------------ the Hono app ---------------------------- *)
\* a request to the Hono app: its Authorization header (absent, empty or set) and
\* whether its body parses as JSON
HonoRequest(method, path, authorization, jsonBody) ==
  [method |-> method, path |-> path, authorization |-> authorization, jsonBody |-> jsonBody]
Bearer == <<"B", "e", "a", "r", "e", "r", " ", "x">>
HonoInputs ==
  {HonoRequest(m, p, a, j) :
     m \in {"GET", "POST"}, p \in {"/", "/users", "/other"},
     a \in {Undef, Str(<<>>), Str(Bearer)}, j \in BOOLEAN}

\* the header is there, whatever its value
HeaderPresent(authorization) == authorization.t # "undefined"

\* if (c.req.header("Authorization"))
HeaderTruthy(authorization) == Truthy(authorization)

\* c.text(text) and c.json(object)
TextReply(q, text) ==
  [q EXCEPT !.pc = "done", !.status = 200, !.contentType = "text/plain", !.text = text]
JsonReply(q, text) ==
  [q EXCEPT !.pc = "done", !.status = 200, !.contentType = "application/json", !.text = text]

\* h is the next request to reach the app
HonoNext(h) ==
  /\ hono[h].pc = "idle"
  /\ \A q \in 1..(h - 1) : hono[q].pc # "idle"

\* authMiddleware(c, next) and, when it calls next(), the POST / handler up to its
\* await of c.req.json(); the refusal ends with a cross-mark emoji in the source, which
\* is left out here
authMiddleware(q) ==
  IF HeaderTruthy(q.authorization)
  THEN [q EXCEPT !.checked = TRUE, !.handler = "post /", !.pc = "json"]
  ELSE TextReply([q EXCEPT !.checked = TRUE], "You don't have access")

\* the app receives a request and routes it
HonoFetch(h, req) ==
  /\ HonoNext(h)
  /\ LET q == [HonoIdle EXCEPT !.method = req.method, !.path = req.path,
                               !.authorization = req.authorization, !.jsonBody = req.jsonBody]
     IN hono' = [hono EXCEPT ![h] =
          IF req.method = "GET" /\ req.path = "/users"
          THEN JsonReply([q EXCEPT !.handler = "get /users"], "response from get request on /users")
          ELSE IF req.method = "GET" /\ req.path = "/"
          THEN TextReply([q EXCEPT !.handler = "get /"], "Hello Hono!")
          ELSE IF req.method = "POST" /\ req.path = "/"
          THEN authMiddleware(q)
          ELSE [q EXCEPT !.pc = "done", !.status = 404, !.contentType = "text/plain",
                         !.text = "404 Not Found"]]
  /\ UNCHANGED <<env, s3Client, constructed, slots, signLog, clock, usedUuids, widgetVars>>

\* c.req.json() settles in the POST / handler: the reply, or the error response of the
\* framework when the body does not parse
HonoJson(h) ==
  /\ hono[h].pc = "json"
  /\ hono' = [hono EXCEPT ![h] =
       IF hono[h].jsonBody THEN TextReply(hono[h], "Hello Hono!")
       ELSE [hono[h] EXCEPT !.pc = "done", !.status = 500, !.contentType = "text/plain",
                            !.text = "Internal Server Error"]]
  /\ UNCHANGED <<env, s3Client, constructed, slots, signLog, clock, usedUuids, widgetVars>>

\* the Hono app alone: no worker process is part of this specification
InitHono == Init /\ \A k \in DOMAIN env : env[k] = Undef

NextHono ==
  \/ \E h \in HonoRequests : HonoNext(h) /\ \E req \in HonoInputs : HonoFetch(h, req)
  \/ \E h \in HonoRequests : HonoJson(h)

SpecHono == InitHono /\ [][NextHono]_vars

(* =============================== claims ================================ *)
HasPrefix(s, p) == Len(s) >= Len(p) /\ SubSeq(s, 1, Len(p)) = p
Suffix(s, n) == SubSeq(s, Len(s) - n + 1, Len(s))
\* a request field that is missing or empty
Missing(v) == v \in {Undef, JsNull, Str(<<>>)}
UploadDone(r) == slots[r].pc = "done" /\ slots[r].handler = "upload"
ConfirmDone(r) == slots[r].pc = "done" /\ slots[r].handler = "confirm"
SignCallsOf(id) == {i \in 1..Len(signLog) : signLog[i].req = id}
\* https://<bucket>.s3.amazonaws.com/<key>
PublicUrl(key) == Str(HttpsPrefix \o JsToString(env.AWS_S3_BUCKET) \o S3Domain \o key)

\* the characters the specification allows in the filename segment of a key
AllowedNameChar(c) == c \in Letters \cup Digits \cup {"_", ".", "-"}
ExpectedSegment(name) ==
  [i \in 1..Len(name) |-> IF AllowedNameChar(name[i]) THEN name[i] ELSE "_"]

\* C1: the key of every successful Issuer response begins with uploads/ and ends with
\* the submitted filename in which every character outside [A-Za-z0-9_.-], whitespace
\* included, has been replaced by '_'.
C1_SanitizedKey ==
  \A r \in Slots :
    (UploadDone(r) /\ slots[r].resp.status = 200) =>
      LET key == slots[r].resp.body.key.s
          name == slots[r].body.filename.s
      IN /\ HasPrefix(key, UploadsPrefix)
         /\ Suffix(key, Len(name)) = ExpectedSegment(name)

LacksParameters(body) ==
  body.kind = "object" /\ (Missing(body.filename) \/ Missing(body.filetype))

\* C2 as stated: an Issuer request lacking filename or filetype gets the 400 response
\* with the missing-parameters error and causes no signing call, in every process state.
C2_Original ==
  \A r \in Slots :
    (slots[r].handler = "upload" /\ LacksParameters(slots[r].body)) =>
      /\ SignCallsOf(slots[r].id) = {}
      /\ slots[r].pc = "done" =>
           /\ slots[r].resp.status = 400
           /\ slots[r].resp.body.error = "Missing required parameters: filename and filetype"

\* C2 amended: such a request never causes a signing call; it gets the 400 response when
\* the storage client has been constructed, and the 500 response of the uninitialised
\* client when it has not.
C2_Amended ==
  \A r \in Slots :
    (slots[r].handler = "upload" /\ LacksParameters(slots[r].body)) =>
      /\ SignCallsOf(slots[r].id) = {}
      /\ (slots[r].pc = "done" /\ s3Client.made) =>
           /\ slots[r].resp.status = 400
           /\ slots[r].resp.body.fields = {"error"}
           /\ slots[r].resp.body.error = "Missing required parameters: filename and filetype"
      /\ (slots[r].pc = "done" /\ ~s3Client.made) =>
           /\ slots[r].resp.status = 500
           /\ slots[r].resp.body.fields = {"error", "details"}

C2_Witness ==
  \E r \in Slots :
    /\ UploadDone(r) /\ LacksParameters(slots[r].body)
    /\ slots[r].body.filename = Str(<<>>)
    /\ slots[r].resp.status = 400

\* C3: every key the Issuer has returned, sent to the Validator, gets 200 with
\* success = true and imageUrl = https://<bucket>.s3.amazonaws.com/<key>.
C3_IssuedKeyConfirms ==
  \A r \in Slots :
    (ConfirmDone(r) /\ slots[r].body.key.t = "string" /\ slots[r].body.key.s \in IssuedKeys) =>
      /\ slots[r].resp.status = 200
      /\ slots[r].resp.body.success
      /\ slots[r].resp.body.imageUrl = PublicUrl(slots[r].body.key.s)

\* uploads/, one or more digits, '-', one or more identifier characters, '-', the rest
Shape(s, IdChar(_), RestChar(_)) ==
  /\ HasPrefix(s, UploadsPrefix)
  /\ \E i \in 9..Len(s), j \in 9..Len(s) :
       /\ i + 2 <= j /\ j + 1 <= Len(s)
       /\ \A k \in 9..i : s[k] \in Digits
       /\ s[i + 1] = "-"
       /\ \A k \in (i + 2)..j : IdChar(s[k])
       /\ s[j + 1] = "-"
       /\ \A k \in (j + 2)..Len(s) : RestChar(s[k])

Whitespace == {" ", "\t", "\n", "\r"}
AnyChar(c) == TRUE
NoLineBreak(c) == c \notin {"\n", "\r"}
\* non-slash non-whitespace
SpecIdChar(c) == c \notin Whitespace /\ c # "/"
\* \S
NonSpace(c) == c \notin Whitespace
\* letters, digits, underscore and hyphen
WordOrHyphen(c) == c \in Letters \cup Digits \cup {"_", "-"}

ConfirmedAs(r, key) ==
  /\ slots[r].resp.status = 200
  /\ slots[r].resp.body.fields = {"success", "message", "imageUrl"}
  /\ slots[r].resp.body.success
  /\ slots[r].resp.body.imageUrl = PublicUrl(key)

\* C4 as stated: every key of the shape uploads/<digits>-<non-slash non-whitespace
\* characters>-<anything> is confirmed with imageUrl https://<bucket>.s3.amazonaws.com/<key>.
C4_Original ==
  \A r \in Slots :
    (ConfirmDone(r) /\ slots[r].body.key.t = "string"
       /\ Shape(slots[r].body.key.s, SpecIdChar, AnyChar)) =>
      ConfirmedAs(r, slots[r].body.key.s)

\* C4 amended: every key of that shape whose identifier consists of letters, digits,
\* underscores and hyphens only and whose remainder has no line break is confirmed
\* with that imageUrl, issued or not.
C4_Amended ==
  \A r \in Slots :
    (ConfirmDone(r) /\ slots[r].body.key.t = "string"
       /\ Shape(slots[r].body.key.s, WordOrHyphen, NoLineBreak)) =>
      ConfirmedAs(r, slots[r].body.key.s)

C4_Witness ==
  \E r \in Slots :
    /\ ConfirmDone(r)
    /\ slots[r].body.key = Str(UploadsPrefix \o <<"7", "-", "a", "-", ".">>)
    /\ slots[r].body.key.s \notin IssuedKeys
    /\ ConfirmedAs(r, slots[r].body.key.s)

\* C5: a key that is missing, empty or does not match ^uploads/\d+-\S+-.*$ gets a 400
\* response carrying {error}, never a success result.
C5_MalformedRejected ==
  \A r \in Slots :
    (ConfirmDone(r) /\ slots[r].body.kind = "object"
       /\ (Missing(slots[r].body.key)
             \/ ~Shape(JsToString(slots[r].body.key), NonSpace, NoLineBreak))) =>
      /\ slots[r].resp.status = 400
      /\ slots[r].resp.body.fields = {"error"}
      /\ ~slots[r].resp.body.success

C5_Witness ==
  \E r \in Slots :
    /\ ConfirmDone(r)
    /\ slots[r].body.key = Str(UploadsPrefix \o <<"7", "-", " ", "-", "a">>)
    /\ slots[r].resp.status = 400
    /\ slots[r].resp.body.error = "Invalid key format"

\* C6: no two successful Issuer invocations return the same key, whatever the
\* interleaving, the filenames and the millisecond they fall in.
C6_UniqueKeys ==
  \A p \in Slots, q \in Slots :
    (p # q /\ UploadDone(p) /\ slots[p].resp.status = 200
           /\ UploadDone(q) /\ slots[q].resp.status = 200) =>
      slots[p].resp.body.key # slots[q].resp.body.key

\* two interleaved requests with the same body, answered in the same millisecond
C6_Witness ==
  /\ UploadDone(1) /\ UploadDone(2)
  /\ slots[1].body = slots[2].body
  /\ slots[1].resp.status = 200 /\ slots[2].resp.status = 200
  /\ \A r \in {1, 2} :
       /\ HasPrefix(slots[r].resp.body.key.s, UploadsPrefix \o NatToString(ClockStart) \o <<"-">>)
       /\ Suffix(slots[r].resp.body.key.s, 3) = <<"-", "a", "_">>

Configured(v) == v \notin {Undef, JsNull, Str(<<>>)}
StorageConfigured ==
  Configured(env.AWS_ACCESS_KEY_ID) /\ Configured(env.AWS_SECRET_ACCESS_KEY)
    /\ Configured(env.AWS_REGION)
IsUploadPost(r) ==
  slots[r].pc # "idle" /\ slots[r].method = "POST" /\ slots[r].path = "/get-upload-url"

\* C7: with the access key, the secret key or the region absent, every
\* POST /get-upload-url is answered 500 {error, details} whatever its body; a signing
\* call that errors gives the same 500 response with the error's detail.
C7_BackendUnavailable ==
  /\ ~StorageConfigured =>
       \A r \in Slots :
         IsUploadPost(r) =>
           /\ slots[r].pc = "done"
           /\ slots[r].resp.status = 500
           /\ slots[r].resp.body.fields = {"error", "details"}
           /\ slots[r].resp.body.details # ""
  /\ \A r \in Slots :
       (UploadDone(r) /\ \E i \in SignCallsOf(slots[r].id) : signLog[i].outcome = "rejected") =>
         /\ slots[r].resp.status = 500
         /\ slots[r].resp.body.fields = {"error", "details"}
         /\ slots[r].resp.body.details = "SigningError"

\* only the region is absent, and the body is a valid one
C7_Witness ==
  /\ Configured(env.AWS_ACCESS_KEY_ID) /\ Configured(env.AWS_SECRET_ACCESS_KEY)
  /\ ~Configured(env.AWS_REGION)
  /\ \E r \in Slots :
       /\ IsUploadPost(r)
       /\ Configured(slots[r].body.filename) /\ Configured(slots[r].body.filetype)
       /\ slots[r].resp.status = 500

\* C8: the client handle is constructed at most once, and once it is non-null no step
\* of any request reassigns or resets it.
C8_ConstructedOnce ==
  [][constructed' <= 1 /\ (s3Client.made => s3Client' = s3Client)]_vars

\* two requests in flight together after the handle was made
C8_Witness ==
  /\ s3Client.made
  /\ constructed = 1
  /\ slots[1].pc = "json" /\ slots[2].pc = "json"

\* a step of the handling of a POST /confirm-upload request in slot r
ConfirmStep(r) == slots'[r] # slots[r] /\ slots'[r].handler = "confirm"

\* C9 as stated: handling POST /confirm-upload makes no signing call and leaves all
\* process-wide state, the client handle included, unchanged.
C9_Original ==
  [][\A r \in Slots :
       ConfirmStep(r) =>
         /\ signLog' = signLog /\ usedUuids' = usedUuids
         /\ \A q \in Slots \ {r} : slots'[q] = slots[q]
         /\ env' = env /\ clock' = clock
         /\ s3Client' = s3Client /\ constructed' = constructed]_vars

\* C9 amended: handling POST /confirm-upload makes no signing call and leaves the
\* process-wide state unchanged, except that the entry point constructs the client
\* handle for it when the handle is still null and the storage is configured.
C9_Amended ==
  [][\A r \in Slots :
       ConfirmStep(r) =>
         /\ signLog' = signLog /\ usedUuids' = usedUuids
         /\ \A q \in Slots \ {r} : slots'[q] = slots[q]
         /\ env' = env /\ clock' = clock
         /\ (s3Client.made \/ ~StorageConfigured) =>
              (s3Client' = s3Client /\ constructed' = constructed)
         /\ (~s3Client.made /\ StorageConfigured) =>
              (s3Client'.made /\ constructed' = constructed + 1)]_vars

\* a confirmation handled after an earlier request had the handle made
C9_Witness ==
  \E r \in Slots :
    /\ ConfirmDone(r)
    /\ r = 2
    /\ s3Client.made /\ s3Client.serial = 1
    /\ signLog = <<>>

\* C10: a successful POST /get-upload-url has made exactly one signing call, a PUT of
\* the returned key in the configured bucket with the request's filetype and a
\* 3600-second expiry, and returns that call's URL, the key and the bucket; a request
\* that fails has made no call, or the one call that failed, and issued no key.
C10_OneSigningCall ==
  \A r \in Slots :
    slots[r].handler = "upload" =>
      /\ Cardinality(SignCallsOf(slots[r].id)) <= 1
      /\ (UploadDone(r) /\ slots[r].resp.status = 200) =>
           \E i \in SignCallsOf(slots[r].id) :
             /\ signLog[i].command = "PutObject"
             /\ signLog[i].client = s3Client /\ s3Client.made
             /\ Str(signLog[i].Key) = slots[r].resp.body.key
             /\ HasPrefix(signLog[i].Key, UploadsPrefix)
             /\ signLog[i].Bucket = env.AWS_S3_BUCKET
             /\ signLog[i].ContentType = slots[r].body.filetype
             /\ signLog[i].expiresIn = 3600
             /\ signLog[i].outcome = "resolved"
             /\ slots[r].resp.body.url = Str(signLog[i].url)
             /\ slots[r].resp.body.bucket = env.AWS_S3_BUCKET
             /\ {"url", "key"} \subseteq slots[r].resp.body.fields
             /\ Configured(env.AWS_S3_BUCKET) => "bucket" \in slots[r].resp.body.fields
      /\ (UploadDone(r) /\ slots[r].resp.status # 200) =>
           /\ \A i \in SignCallsOf(slots[r].id) :
                signLog[i].outcome = "rejected" /\ signLog[i].Key \notin IssuedKeys
           /\ slots[r].resp.status = 400 => SignCallsOf(slots[r].id) = {}

C10_Witness ==
  \E r \in Slots :
    /\ UploadDone(r)
    /\ slots[r].resp.status = 200
    /\ Configured(env.AWS_S3_BUCKET)
    /\ slots[r].resp.body.fields = {"url", "key", "bucket"}


(* ---------------------------------- C11 --------------------------------- *)
\* a POST to one of the two endpoints that has been answered
EndpointDone(r) == UploadDone(r) \/ ConfirmDone(r)
\* a body that parsed to an object with a field missing or malformed
FieldError(r) ==
  LET body == slots[r].body
  IN /\ body.kind = "object"
     /\ IF slots[r].handler = "upload"
        THEN \/ Missing(body.filename) \/ body.filename.t # "string"
             \/ Missing(body.filetype) \/ body.filetype.t # "string"
        ELSE Missing(body.key) \/ ~KeyRegexTest(JsToString(body.key))

\* C11 as stated: every POST to /get-upload-url or /confirm-upload ends with a JSON
\* response of status 200, 400 or 500; with the storage backend available a missing or
\* malformed field is reported as 400 {error}, a 500 carries {error, details}, and no
\* request with a field error is answered 200.
C11_ErrorTaxonomy ==
  \A r \in Slots :
    EndpointDone(r) =>
      /\ slots[r].resp.status \in {200, 400, 500}
      /\ slots[r].resp.contentType = "application/json"
      /\ slots[r].resp.status = 400 => slots[r].resp.body.fields = {"error"}
      /\ slots[r].resp.status = 500 => slots[r].resp.body.fields = {"error", "details"}
      /\ (StorageConfigured /\ FieldError(r)) => slots[r].resp.status = 400
      /\ slots[r].resp.status = 200 => ~FieldError(r)


(* ---------------------------------- C12 --------------------------------- *)
\* the configured allowed origin, "*" when none is configured
ExpectedOrigin == IF Configured(env.ALLOWED_ORIGIN) THEN env.ALLOWED_ORIGIN.s ELSE <<"*">>
\* the headers and body of every answered preflight and endpoint request
HeadersAsClaimed ==
  \A r \in Slots :
    slots[r].pc = "done" =>
      /\ slots[r].method = "OPTIONS" =>
           /\ slots[r].handler = "cors"
           /\ slots[r].resp.body = EmptyBody /\ slots[r].resp.text = ""
           /\ slots[r].resp.allowOrigin = ExpectedOrigin
      /\ EndpointDone(r) =>
           /\ slots[r].resp.contentType = "application/json"
           /\ slots[r].resp.allowOrigin = ExpectedOrigin
           /\ slots[r].resp.cacheControl =
                (IF slots[r].resp.status = 200 THEN "private, no-cache" ELSE "no-store")
\* the arrival of an OPTIONS request
Preflight(r) == slots[r].pc = "idle" /\ slots'[r].pc # "idle" /\ slots'[r].method = "OPTIONS"

\* C12: an OPTIONS request is answered with an empty body and Access-Control-Allow-Origin
\* set to the configured origin (default "*"), is not routed and does not construct the
\* storage client; every JSON response of the two endpoints carries the same origin, with
\* Cache-Control "private, no-cache" exactly when the status is 200 and "no-store"
\* otherwise.
C12_CorsHeaders ==
  [][/\ HeadersAsClaimed'
     /\ \A r \in Slots :
          Preflight(r) => /\ slots'[r].pc = "done"
                          /\ s3Client' = s3Client /\ constructed' = constructed
                          /\ signLog' = signLog]_vars

\* a preflight answered after a credential was issued, with an origin and the storage
\* configured
C12_Witness ==
  /\ Configured(env.ALLOWED_ORIGIN) /\ StorageConfigured
  /\ UploadDone(1) /\ slots[1].resp.status = 200
  /\ slots[1].resp.allowOrigin = env.ALLOWED_ORIGIN.s
  /\ slots[2].pc = "done" /\ slots[2].method = "OPTIONS"
  /\ slots[2].resp.allowOrigin = env.ALLOWED_ORIGIN.s
  /\ constructed = 1


(* ---------------------------------- C13 --------------------------------- *)
\* the entry of file id in a list that holds it
Entry(fs, id) == fs[CHOOSE i \in DOMAIN fs : fs[i].id = id]
\* the status changes the claim allows
AllowedMoves ==
  {<<"pending", "uploading">>, <<"uploading", "success">>, <<"uploading", "error">>,
   <<"error", "uploading">>}
\* https://<bucket>.s3.amazonaws.com/<key> with no slash in the bucket part
S3ObjectUrl(url) ==
  /\ url.t = "string"
  /\ \E b \in 1..(Len(url.s) - Len(HttpsPrefix) - Len(S3Domain) - 1) :
       LET from == Len(HttpsPrefix) + 1
           to == Len(HttpsPrefix) + b
       IN /\ SubSeq(url.s, 1, Len(HttpsPrefix)) = HttpsPrefix
          /\ SubSeq(url.s, to + 1, to + Len(S3Domain)) = S3Domain
          /\ \A j \in from..to : url.s[j] # "/"

\* C13: a file's status only moves pending -> uploading, uploading -> success,
\* uploading -> error and error -> uploading; a file whose status is "success" keeps it;
\* status "success" comes with progress 100 and a url https://<bucket>.s3.amazonaws.com/<key>.
C13_StatusMoves ==
  [][/\ \A id \in FileIds(files) \cap FileIds(files') :
          LET old == Entry(files, id).status
              new == Entry(files', id).status
          IN /\ old # new => <<old, new>> \in AllowedMoves
             /\ old = "success" => new = "success"
     /\ \A i \in DOMAIN files' :
          files'[i].status = "success" =>
            files'[i].progress = 100 /\ S3ObjectUrl(files'[i].url)]_vars

\* a file uploaded at its second attempt, after the first one failed
C13_Witness ==
  \E i \in DOMAIN files :
    /\ files[i].status = "success"
    /\ Cardinality({u \in DOMAIN uploads : uploads[u].file = files[i].id /\ uploads[u].pc = "over"}) = 2

(* ---------------------------------- C14 --------------------------------- *)
RemovedIds == {x.file.id : x \in removed}
\* upload call u takes a step: it starts, moves on, or reports progress
RunSteps(u) ==
  \/ u \notin DOMAIN uploads
  \/ uploads'[u] # uploads[u]
  \/ uploads' = uploads /\ uploads[u].pc = "put"

\* C14: a removed file is never in the list again; an entry of the list is altered only
\* by a step of an upload of that very file, so the progress, success and error
\* callbacks of a removed file's upload (and a retry of it) alter no entry.
C14_RemovedStaysOut ==
  [][/\ RemovedIds' \cap FileIds(files') = {}
     /\ \A id \in FileIds(files) \cap FileIds(files') :
          Entry(files', id) # Entry(files, id) =>
            \E u \in DOMAIN uploads' : uploads'[u].file = id /\ RunSteps(u)
     /\ (\E u \in DOMAIN uploads' :
           /\ uploads'[u].file \in RemovedIds
           /\ u \notin DOMAIN uploads \/ uploads'[u] # uploads[u])
          => files' = files]_vars

\* an upload that was in flight when its file was removed has ended, and another file
\* is in the list
C14_Witness ==
  /\ \E x \in removed : \E u \in x.inFlight : uploads[u].pc = "over"
  /\ \E i \in DOMAIN files : files[i].status = "success"


(* ---------------------------------- C15 --------------------------------- *)
\* a request that carries a non-empty Authorization header
Authorized(q) == q.authorization.t = "string" /\ q.authorization.s # <<>>
PostRoot(q) == q.pc # "idle" /\ q.method = "POST" /\ q.path = "/"

\* C15: the POST / handler runs only for a request with a non-empty Authorization header;
\* without one the middleware answers "You don't have access" and the handler is not
\* invoked; GET / and GET /users are served without any Authorization check.
C15_AuthGate ==
  \A h \in HonoRequests :
    LET q == hono[h]
    IN /\ q.handler = "post /" => PostRoot(q) /\ Authorized(q)
       /\ (PostRoot(q) /\ q.text = "Hello Hono!") => Authorized(q)
       /\ (PostRoot(q) /\ ~Authorized(q)) =>
            /\ q.pc = "done" /\ q.handler = ""
            /\ q.text = "You don't have access"
       /\ (q.pc # "idle" /\ q.method = "GET" /\ q.path = "/") =>
            q.pc = "done" /\ ~q.checked /\ q.status = 200 /\ q.text = "Hello Hono!"
       /\ (q.pc # "idle" /\ q.method = "GET" /\ q.path = "/users") =>
            /\ q.pc = "done" /\ ~q.checked /\ q.status = 200
            /\ q.text = "response from get request on /users"

\* a POST / with an empty Authorization header was turned away, one with a header got
\* the handler's reply, and a GET / without a header was served
C15_Witness ==
  \E a \in HonoRequests, b \in HonoRequests :
    /\ PostRoot(hono[a]) /\ hono[a].authorization = Str(<<>>) /\ hono[a].pc = "done"
    /\ PostRoot(hono[b]) /\ Authorized(hono[b]) /\ hono[b].text = "Hello Hono!"

====
